---- MODULE Spec2Model ----
(***************************************************************************)
(* Order status state machine with inventory reservation, and the WhatsApp *)
(* webhook ingestion pipeline, of the whatsapp-commerce backend.           *)
(*                                                                         *)
(* Every request is a process whose steps are the statements it awaits:    *)
(* between two awaits of one request any other request may run.            *)
(*                                                                         *)
(* prisma.$transaction commits or rolls back the writes of its callback as *)
(* one unit.  Neither transaction asks for an isolationLevel, and the      *)
(* statements the routes use (the scalar-list push of orders.js:348, the   *)
(* mode: 'insensitive' filter of messages.js:47) exist only on Prisma's    *)
(* PostgreSQL-family connectors, whose default is READ COMMITTED: a read   *)
(* inside a transaction is an ordinary statement that sees what is         *)
(* committed when it runs and locks nothing.  A transaction is therefore   *)
(* two steps, its reads and then its writes with the commit; an update     *)
(* with { decrement } or { increment } is relative to the row as it is     *)
(* when the update runs, an update with a plain value overwrites it.       *)
(***************************************************************************)
EXTENDS Integers, Sequences, FiniteSets, TLC

\* ---------------------------------------------------------------- bounds
NumProducts == 2
InitStock == 2
MaxReq == 2
SeedStatuses == {"PENDING", "SHIPPED", "DELIVERED"}

Products == 1..NumProducts

\* ------------------------------------------------------------- constants
Statuses == {"PENDING", "CONFIRMED", "PROCESSING", "SHIPPED", "DELIVERED",
             "CANCELLED", "REFUNDED"}

\* body('status').isIn([...]) of PATCH /:orderNumber/status
PatchStatuses == Statuses \ {"PENDING"}

validTransitions ==
  [s \in Statuses |->
     CASE s = "PENDING"    -> {"CONFIRMED", "CANCELLED"}
       [] s = "CONFIRMED"  -> {"PROCESSING", "CANCELLED"}
       [] s = "PROCESSING" -> {"SHIPPED", "CANCELLED"}
       [] s = "SHIPPED"    -> {"DELIVERED", "REFUNDED"}
       [] s = "DELIVERED"  -> {"REFUNDED"}
       [] OTHER            -> {}]

Terminal == {"CANCELLED", "REFUNDED"}

Item(p, q) == [productId |-> p, quantity |-> q]

\* User.role: ADMIN, MANAGER, SUPPORT, USER.  Two customers, one member of
\* staff who is not an administrator, one administrator.
Users == 1..4
Role(u) ==
  CASE u = 1 -> "USER" [] u = 2 -> "USER" [] u = 3 -> "MANAGER" [] OTHER -> "ADMIN"

\* the callers of POST /api/orders (any authenticated user may call it)
Customers == {1, 2}

\* Order.userId of an order created from the chat: null
NoUser == 0

\* Request bodies of POST /api/orders that pass the express-validator chain
\* (items non-empty, productId >= 1, 1 <= quantity <= 100).
ItemLists ==
  { <<Item(1, 1)>>, <<Item(1, 2)>>, <<Item(1, 1), Item(2, 1)>>,
    <<Item(NumProducts + 1, 1)>>, <<Item(1, 1), Item(1, 1)>> }

VARIABLES
  stock,      \* Product.stock, per product id
  isActive,   \* Product.isActive
  price,      \* Product.price
  orders,     \* Order rows with their OrderItem rows, by order number
  auditLog,   \* AuditLog rows, in insertion order
  creates,    \* POST /api/orders requests
  patches,    \* PATCH /api/orders/:orderNumber/status requests
  messages,   \* Message rows, in insertion order
  outbox,     \* texts handed to the provider by sendMessage, in order
  readMarks,  \* provider message ids marked as read, in order
  jsonFirst,  \* whether a JSON body parser is mounted before the webhook
              \* router (index.js does so) or the router's own express.raw
              \* is the first parser to see the body
  hooks,      \* POST /webhook deliveries
  verifies,   \* GET /webhook requests, answered
  edits,      \* PUT and DELETE /api/products/:id requests
  reads,      \* GET /api/orders and GET /api/orders/:orderNumber requests
  cmds,       \* texts given to the command interpreter, with what it did
  inbox,      \* Message rows as /api/messages sees them, by id
  msgReqs,    \* requests on /api/messages
  refreshTokens, \* RefreshToken rows, by token
  userActive, \* User.isActive of the users that logged in
  now,        \* the clock new Date() reads
  authReqs    \* requests on /api/auth

\* the shop: products, orders, and the requests on them
shop == <<stock, isActive, price, orders, auditLog, creates, patches,
          messages, outbox, readMarks, jsonFirst, hooks, verifies, edits, reads>>

\* what the shop's requests never touch
cmdVars == <<cmds>>
msgVars == <<inbox, msgReqs>>
authVars == <<refreshTokens, userActive, now, authReqs>>
side == <<cmdVars, msgVars, authVars>>

vars == <<shop, side>>

db == <<stock, isActive, price, orders, auditLog>>
chat == <<messages, outbox, readMarks>>

\* ------------------------------------------------------------- helpers
RECURSIVE SumQty(_, _)
SumQty(items, p) ==
  IF items = <<>> THEN 0
  ELSE (IF Head(items).productId = p THEN Head(items).quantity ELSE 0)
       + SumQty(Tail(items), p)

\* A plausible slip: the quantity is left out of the total.
RECURSIVE TotalOfPrices(_)
TotalOfPrices(orderItems) ==
  IF orderItems = <<>> THEN 0
  ELSE Head(orderItems).price + TotalOfPrices(Tail(orderItems))

RECURSIVE Total(_)
Total(orderItems) ==
  IF orderItems = <<>> THEN 0
  ELSE Head(orderItems).price * Head(orderItems).quantity + Total(Tail(orderItems))

\* A plausible slip: the table keeps the latest entry only.
LoggedLatestOnly(log, entry) == <<entry>>

\* auditLog.create: a row is added, none is touched
Logged(log, entry) == Append(log, entry)

NumReqs ==
  Len(creates) + Len(patches) + Len(hooks) + Len(verifies) + Len(edits) + Len(reads)

\* Requests arrive at any time, also while earlier ones are being served.
CanArrive == NumReqs < MaxReq

\* The status history an order has after it was moved, one allowed step at a
\* time, from PENDING to status s.
HistoryTo(s) ==
  CASE s = "PENDING"    -> <<>>
    [] s = "CONFIRMED"  -> <<[from |-> "PENDING", to |-> "CONFIRMED"]>>
    [] s = "PROCESSING" -> <<[from |-> "PENDING", to |-> "CONFIRMED"],
                             [from |-> "CONFIRMED", to |-> "PROCESSING"]>>
    [] s = "SHIPPED"    -> <<[from |-> "PENDING", to |-> "CONFIRMED"],
                             [from |-> "CONFIRMED", to |-> "PROCESSING"],
                             [from |-> "PROCESSING", to |-> "SHIPPED"]>>
    [] s = "DELIVERED"  -> <<[from |-> "PENDING", to |-> "CONFIRMED"],
                             [from |-> "CONFIRMED", to |-> "PROCESSING"],
                             [from |-> "PROCESSING", to |-> "SHIPPED"],
                             [from |-> "SHIPPED", to |-> "DELIVERED"]>>

\* An order placed and processed before the run starts: one unit of product 1,
\* already taken from stock.
SeedOrder(s) ==
  [status |-> s, total |-> 1, origin |-> "rest", userId |-> 1,
   items |-> <<[productId |-> 1, quantity |-> 1, price |-> 1]>>,
   statusHistory |-> HistoryTo(s), released |-> 0]

\* ---------------------------------------------------------------- Init
InitShop ==
  /\ isActive = [p \in Products |-> TRUE]
  /\ price = [p \in Products |-> p]
  /\ \/ /\ orders = <<>>
        /\ stock = [p \in Products |-> InitStock]
     \/ \E s \in SeedStatuses :
          /\ orders = <<SeedOrder(s)>>
          /\ stock = [p \in Products |-> IF p = 1 THEN InitStock - 1 ELSE InitStock]
  /\ auditLog = <<>>
  /\ creates = <<>>
  /\ patches = <<>>
  /\ messages = <<>>
  /\ outbox = <<>>
  /\ readMarks = <<>>
  /\ jsonFirst \in BOOLEAN
  /\ hooks = <<>>
  /\ verifies = <<>>
  /\ edits = <<>>
  /\ reads = <<>>

\* two users have logged in and hold one refresh token each
AuthUsers == {1, 2}
IssuedTokens == {1, 2}
UnknownToken == 3
TokenLife == 1

Issued(u) == [userId |-> u, expiresAt |-> TokenLife, revokedAt |-> <<>>]

InitAuth ==
  /\ refreshTokens = [t \in IssuedTokens |-> Issued(t)]
  /\ now = 0
  /\ authReqs = <<>>

Init ==
  /\ InitShop
  /\ cmds = <<>>
  /\ inbox = <<>>
  /\ msgReqs = <<>>
  /\ InitAuth
  /\ userActive = [u \in AuthUsers |-> TRUE]

\* ------------------------------------------------ POST /api/orders
CreateArrive ==
  /\ CanArrive
  /\ \E items \in ItemLists, u \in Customers :
       creates' = Append(creates,
         [pc |-> "read", user |-> u, items |-> items, orderItems |-> <<>>,
          res |-> 0, err |-> "", product |-> 0, order |-> 0])
  /\ UNCHANGED <<side, db, patches, hooks, chat, jsonFirst, verifies, edits, reads>>

\* tx.product.findMany({id in productIds, isActive}) and the checks made on
\* its result.
FoundProducts(items) ==
  {p \in Products : isActive[p] /\ \E k \in DOMAIN items : items[k].productId = p}

StockOk(items) ==
  \A k \in DOMAIN items : ~(stock[items[k].productId] < items[k].quantity)

\* the product named by `Stock insuffisant pour ${product.name}`: that of the
\* first line that is short
RECURSIVE FirstShort(_)
FirstShort(items) ==
  IF stock[Head(items).productId] < Head(items).quantity
  THEN Head(items).productId
  ELSE FirstShort(Tail(items))

CreateTxRead(i) ==
  /\ creates[i].pc = "read"
  /\ LET items == creates[i].items IN
       IF Cardinality(FoundProducts(items)) # Len(items)
       THEN creates' = [creates EXCEPT ![i].pc = "done", ![i].res = 400,
                                       ![i].err = "InvalidProduct"]
       ELSE IF ~StockOk(items)
       THEN creates' = [creates EXCEPT ![i].pc = "done", ![i].res = 400,
                                       ![i].err = "InsufficientStock",
                                       ![i].product = FirstShort(items)]
       ELSE creates' = [creates EXCEPT ![i].pc = "write",
              ![i].orderItems =
                 [k \in DOMAIN items |->
                    [productId |-> items[k].productId,
                     quantity |-> items[k].quantity,
                     price |-> price[items[k].productId]]]]
  /\ UNCHANGED <<side, db, patches, hooks, chat, jsonFirst, verifies, edits, reads>>

\* A plausible slip: only the first line of the order is taken from stock.
DecrementFirstLine(st, items) ==
  [p \in Products |-> st[p] - SumQty(<<Head(items)>>, p)]

\* stock: { decrement: item.quantity } for every item of the order
Decrement(st, items) ==
  [p \in Products |-> st[p] - SumQty(items, p)]

CreateTxWrite(i) ==
  /\ creates[i].pc = "write"
  /\ LET oi == creates[i].orderItems
         n == Len(orders) + 1 IN
       /\ orders' = Append(orders,
            [status |-> "PENDING", total |-> Total(oi), origin |-> "rest",
             userId |-> creates[i].user, items |-> oi, statusHistory |-> <<>>, released |-> 0])
       /\ stock' = Decrement(stock, creates[i].items)
       /\ auditLog' = Logged(auditLog, [action |-> "CREATE_ORDER", order |-> n])
       /\ creates' = [creates EXCEPT ![i].pc = "done", ![i].res = 201,
                                     ![i].order = n]
  /\ UNCHANGED <<side, isActive, price, patches, hooks, chat, jsonFirst, verifies, edits, reads>>

\* A statement inside the transaction throws something else (the database is
\* unreachable, the commit fails): the transaction is rolled back and the
\* catch answers 500.
CreateFail(i) ==
  /\ creates[i].pc \in {"read", "write"}
  /\ creates' = [creates EXCEPT ![i].pc = "done", ![i].res = 500]
  /\ UNCHANGED <<side, db, patches, hooks, chat, jsonFirst, verifies, edits, reads>>

\* ------------------------------ PATCH /api/orders/:orderNumber/status
PatchArrive ==
  /\ CanArrive
  /\ \E o \in 1..(Len(orders) + 1), s \in PatchStatuses :
       patches' = Append(patches,
         [pc |-> "find", orderNumber |-> o, status |-> s, from |-> "",
          i |-> 1, res |-> 0])
  /\ UNCHANGED <<side, db, creates, hooks, chat, jsonFirst, verifies, edits, reads>>

\* prisma.order.findUnique, then the checks on the row that was read
PatchFind(i) ==
  /\ patches[i].pc = "find"
  /\ LET o == patches[i].orderNumber IN
       IF o \notin DOMAIN orders
       THEN patches' = [patches EXCEPT ![i].pc = "done", ![i].res = 404]
       ELSE IF orders[o].status \notin DOMAIN validTransitions
       THEN \* validTransitions[order.status] is undefined: TypeError, caught
            patches' = [patches EXCEPT ![i].pc = "done", ![i].res = 500,
                                       ![i].from = orders[o].status]
       ELSE IF patches[i].status \notin validTransitions[orders[o].status]
       THEN patches' = [patches EXCEPT ![i].pc = "done", ![i].res = 400,
                                       ![i].from = orders[o].status]
       ELSE patches' = [patches EXCEPT ![i].pc = "update",
                                       ![i].from = orders[o].status]
  /\ UNCHANGED <<side, db, creates, hooks, chat, jsonFirst, verifies, edits, reads>>

\* prisma.order.update: status and statusHistory.push, one statement
PatchUpdate(i) ==
  /\ patches[i].pc = "update"
  /\ LET o == patches[i].orderNumber IN
       orders' = [orders EXCEPT
         ![o].status = patches[i].status,
         ![o].statusHistory = Append(@, [from |-> patches[i].from,
                                         to |-> patches[i].status])]
  /\ patches' = [patches EXCEPT
       ![i].pc = IF patches[i].status \in Terminal THEN "restore" ELSE "audit"]
  /\ UNCHANGED <<side, stock, isActive, price, auditLog, creates, hooks, chat, jsonFirst, verifies, edits, reads>>

\* A plausible slip: one unit is returned whatever the quantity of the item.
IncrementByOne(st, item) ==
  [st EXCEPT ![item.productId] = @ + 1]

\* stock: { increment: item.quantity }
Increment(st, item) ==
  [st EXCEPT ![item.productId] = @ + item.quantity]

\* one turn of the loop over the order's items
PatchRestore(i) ==
  /\ patches[i].pc = "restore"
  /\ LET o == patches[i].orderNumber
         item == orders[o].items[patches[i].i] IN
       /\ stock' = Increment(stock, item)
       /\ orders' = [orders EXCEPT ![o].released = @ + item.quantity]
       /\ patches' = [patches EXCEPT
            ![i].i = @ + 1,
            ![i].pc = IF patches[i].i = Len(orders[o].items) THEN "audit"
                      ELSE "restore"]
  /\ UNCHANGED <<side, isActive, price, auditLog, creates, hooks, chat, jsonFirst, verifies, edits, reads>>

\* prisma.auditLog.create, then res.json
PatchAudit(i) ==
  /\ patches[i].pc = "audit"
  /\ auditLog' = Logged(auditLog, [action |-> "UPDATE_ORDER_STATUS",
                                    order |-> patches[i].orderNumber])
  /\ patches' = [patches EXCEPT ![i].pc = "done", ![i].res = 200]
  /\ UNCHANGED <<side, stock, isActive, price, orders, creates, hooks, chat, jsonFirst, verifies, edits, reads>>

\* A statement of the handler throws (the database is unreachable, a row is
\* locked too long): the catch answers 500 and nothing is undone.
PatchFail(i) ==
  /\ patches[i].pc \in {"update", "restore", "audit"}
  /\ patches' = [patches EXCEPT ![i].pc = "done", ![i].res = 500]
  /\ UNCHANGED <<side, db, creates, hooks, chat, jsonFirst, verifies, edits, reads>>

\* ------------------------------------- PUT, DELETE /api/products/:id
NewPrice == 3
NewStock == 1

\* the fields of a PUT body that matter here; <<>> is a field left out
PutBodies ==
  { [price |-> <<NewPrice>>, stock |-> <<>>],
    [price |-> <<>>, stock |-> <<NewStock>>],
    [price |-> <<>>, stock |-> <<>>] }

EditArrive ==
  /\ CanArrive
  /\ \E id \in 1..(NumProducts + 1) :
       \/ \E b \in PutBodies :
            edits' = Append(edits, [kind |-> "put", pc |-> "find", id |-> id,
                                    body |-> b, res |-> 0])
       \/ edits' = Append(edits, [kind |-> "delete", pc |-> "find", id |-> id,
                                   body |-> [price |-> <<>>, stock |-> <<>>],
                                   res |-> 0])
  /\ UNCHANGED <<side, db, creates, patches, hooks, chat, jsonFirst, verifies, reads>>

\* prisma.product.findUnique({ id }): soft-deleted products are found too
EditFind(i) ==
  /\ edits[i].pc = "find"
  /\ edits' = [edits EXCEPT
       ![i].pc = IF edits[i].id \notin Products THEN "done"
                 ELSE IF edits[i].kind = "put" THEN "update" ELSE "count",
       ![i].res = IF edits[i].id \notin Products THEN 404 ELSE 0]
  /\ UNCHANGED <<side, db, creates, patches, hooks, chat, jsonFirst, verifies, reads>>

\* prisma.orderItem.count for orders PENDING, CONFIRMED or PROCESSING
ActiveOrders(p) ==
  Cardinality(UNION {
    { <<o, k>> : k \in {k \in DOMAIN orders[o].items :
                          orders[o].items[k].productId = p} } :
    o \in {o \in DOMAIN orders :
             orders[o].status \in {"PENDING", "CONFIRMED", "PROCESSING"}} })

EditCount(i) ==
  /\ edits[i].pc = "count"
  /\ edits' = [edits EXCEPT
       ![i].pc = IF ActiveOrders(edits[i].id) > 0 THEN "done" ELSE "update",
       ![i].res = IF ActiveOrders(edits[i].id) > 0 THEN 409 ELSE 0]
  /\ UNCHANGED <<side, db, creates, patches, hooks, chat, jsonFirst, verifies, reads>>

\* updateData: the fields of the body that are not undefined
UpdateData(row, field) == IF field = <<>> THEN row ELSE field[1]

\* prisma.product.update: data: updateData (PUT), data: { isActive: false }
\* (DELETE)
EditUpdate(i) ==
  /\ edits[i].pc = "update"
  /\ LET e == edits[i] IN
       IF e.kind = "put"
       THEN /\ price' = [price EXCEPT ![e.id] = UpdateData(@, e.body.price)]
            /\ stock' = [stock EXCEPT ![e.id] = UpdateData(@, e.body.stock)]
            /\ isActive' = isActive
       ELSE /\ isActive' = [isActive EXCEPT ![e.id] = FALSE]
            /\ UNCHANGED <<price, stock>>
  /\ edits' = [edits EXCEPT ![i].pc = "audit"]
  /\ UNCHANGED <<side, orders, auditLog, creates, patches, hooks, chat, jsonFirst,
                 verifies, reads>>

\* prisma.auditLog.create, then res.json
EditAudit(i) ==
  /\ edits[i].pc = "audit"
  /\ auditLog' = Logged(auditLog,
       [action |-> IF edits[i].kind = "put" THEN "UPDATE_PRODUCT"
                   ELSE "DELETE_PRODUCT",
        order |-> 0])
  /\ edits' = [edits EXCEPT ![i].pc = "done", ![i].res = 200]
  /\ UNCHANGED <<side, stock, isActive, price, orders, creates, patches, hooks, chat,
                 jsonFirst, verifies, reads>>

\* ------------------------- GET /api/orders, GET /api/orders/:orderNumber
\* where: userId = req.user.id if req.user.role === 'USER'
Where(u, o) == Role(u) = "USER" => orders[o].userId = u

\* orderNumber 0 is the list; the handlers' database read is their first await
ReadArrive ==
  /\ CanArrive
  /\ \E u \in Users, o \in 0..(Len(orders) + 1) :
       reads' = Append(reads, [pc |-> "query", user |-> u, orderNumber |-> o,
                               res |-> 0, found |-> {}])
  /\ UNCHANGED <<side, db, creates, patches, hooks, chat, jsonFirst, verifies, edits>>

\* prisma.order.findMany({ where }) and res.json, or prisma.order.findFirst
ReadQuery(i) ==
  /\ reads[i].pc = "query"
  /\ LET r == reads[i]
         found == {o \in DOMAIN orders :
                    /\ r.orderNumber # 0 => o = r.orderNumber
                    /\ Where(r.user, o)} IN
       reads' = [reads EXCEPT
         ![i].found = found,
         ![i].pc = IF r.orderNumber # 0 /\ found # {} THEN "audit" ELSE "done",
         ![i].res = IF r.orderNumber = 0 THEN 200
                    ELSE IF found = {} THEN 404 ELSE 0]
  /\ UNCHANGED <<side, db, creates, patches, hooks, chat, jsonFirst, verifies, edits>>

\* prisma.auditLog.create({ action: 'VIEW_ORDER' }).catch(...), then res.json
ReadAudit(i) ==
  /\ reads[i].pc = "audit"
  /\ auditLog' = Logged(auditLog, [action |-> "VIEW_ORDER",
                                    order |-> reads[i].orderNumber])
  /\ reads' = [reads EXCEPT ![i].pc = "done", ![i].res = 200]
  /\ UNCHANGED <<side, stock, isActive, price, orders, creates, patches, hooks, chat,
                 jsonFirst, verifies, edits>>

\* ------------------------------------------------ processCommand
\* A text is the sequence of its characters.
UpperCase == <<"A", "B", "C", "D", "E", "F", "G", "H", "I", "J", "K", "L", "M", "N", "O", "P", "Q", "R", "S", "T", "U", "V", "W", "X", "Y", "Z">>
LowerCase == <<"a", "b", "c", "d", "e", "f", "g", "h", "i", "j", "k", "l", "m", "n", "o", "p", "q", "r", "s", "t", "u", "v", "w", "x", "y", "z">>
Digits == <<"0", "1", "2", "3", "4", "5", "6", "7", "8", "9">>
WhiteSpace == {" ", "\n"}

MaxCommandLength == 1000

\* text.toLowerCase()
ToLowerChar(c) ==
  IF \E i \in DOMAIN UpperCase : UpperCase[i] = c
  THEN LowerCase[CHOOSE i \in DOMAIN UpperCase : UpperCase[i] = c]
  ELSE c

ToLowerCase(text) == [i \in DOMAIN text |-> ToLowerChar(text[i])]

\* .trim()
RECURSIVE TrimStart(_)
TrimStart(text) ==
  IF text # <<>> /\ Head(text) \in WhiteSpace THEN TrimStart(Tail(text)) ELSE text

RECURSIVE TrimEnd(_)
TrimEnd(text) ==
  IF text # <<>> /\ text[Len(text)] \in WhiteSpace
  THEN TrimEnd(SubSeq(text, 1, Len(text) - 1))
  ELSE text

Trim(text) == TrimEnd(TrimStart(text))

StartsWith(text, prefix) ==
  Len(text) >= Len(prefix) /\ SubSeq(text, 1, Len(prefix)) = prefix

\* /^\d+$/.test(productId)
IsDigits(text) == text # <<>> /\ \A i \in DOMAIN text : text[i] \in {Digits[d] : d \in DOMAIN Digits}

\* parseInt(productId) of a string of digits
RECURSIVE ParseInt(_)
ParseInt(text) ==
  IF text = <<>> THEN 0
  ELSE ParseInt(SubSeq(text, 1, Len(text) - 1)) * 10
       + (CHOOSE d \in DOMAIN Digits : Digits[d] = text[Len(text)]) - 1

Acheter == <<"a", "c", "h", "e", "t", "e", "r", " ">>

\* processCommand: the branch taken for a text
CommandOf(text) ==
  IF text = <<>> THEN [action |-> "none", productId |-> 0]
  ELSE LET command == Trim(ToLowerCase(text)) IN
    IF Len(command) > MaxCommandLength
    THEN [action |-> "too-long", productId |-> 0]
    ELSE IF command \in {<<"m", "e", "n", "u">>, <<"p", "r", "o", "d", "u", "i", "t", "s">>}
    THEN [action |-> "products", productId |-> 0]
    ELSE IF command \in {<<"b", "o", "n", "j", "o", "u", "r">>, <<"s", "a", "l", "u", "t">>, <<"h", "e", "l", "l", "o">>}
    THEN [action |-> "welcome", productId |-> 0]
    ELSE IF command \in {<<"c", "o", "m", "m", "a", "n", "d", "e">>, <<"c", "o", "m", "m", "a", "n", "d", "e", "s">>}
    THEN [action |-> "orders", productId |-> 0]
    ELSE IF StartsWith(command, Acheter)
    THEN LET productId == Trim(SubSeq(command, Len(Acheter) + 1, Len(command))) IN
           IF IsDigits(productId)
           THEN [action |-> "purchase", productId |-> ParseInt(productId)]
           ELSE [action |-> "invalid-id", productId |-> 0]
    ELSE [action |-> "fallback", productId |-> 0]

\* -------------------------------------------------------- GET /webhook
VerifyToken == "WHATSAPP_WEBHOOK_VERIFY_TOKEN"
Absent == "undefined"
Forbidden == "Forbidden"

\* req.query['hub.mode'], ['hub.verify_token'], ['hub.challenge']
Modes == {"subscribe", "unsubscribe", Absent}
Tokens == {VerifyToken, "guess", Absent}
Challenges == {"XYZ", "1158201444"}

\* A plausible slip: the mode is not looked at.
VerifiedByTokenOnly(mode, token) == token = VerifyToken

\* mode === 'subscribe' && token === process.env.WHATSAPP_WEBHOOK_VERIFY_TOKEN
\* (index.js refuses to start without the variable)
Verified(mode, token) == mode = "subscribe" /\ token = VerifyToken

\* the handler has no await: the request is answered in the step it arrives
HookVerify ==
  /\ CanArrive
  /\ \E mode \in Modes, token \in Tokens, challenge \in Challenges :
       verifies' = Append(verifies,
         IF Verified(mode, token)
         THEN [mode |-> mode, token |-> token, challenge |-> challenge,
               res |-> 200, body |-> challenge]
         ELSE [mode |-> mode, token |-> token, challenge |-> challenge,
               res |-> 403, body |-> Forbidden])
  /\ UNCHANGED <<side, db, creates, patches, hooks, chat, jsonFirst, edits, reads>>

\* ------------------------------------------------------- POST /webhook
AppSecret == "WHATSAPP_APP_SECRET"
WrongSecret == "not-the-secret"
ObjectString == "[object Object]"
StaleBody == "body-signed-earlier"

\* HMAC-SHA256 as an injective function of key and message.
Hmac(key, payload) == <<key, payload>>
NoSignature == <<>>
Sign(key, payload) == <<"sha256=">> \o Hmac(key, payload)

\* One element of entry.changes: its field, whether it has a value at all,
\* whether value.messages is there, the id and text of messages[0], and what
\* contacts[0] is ("valid", "missing", or "short" for a wa_id of less than
\* ten digits).
Change(field, hasValue, hasMessages, id, text, contact) ==
  [field |-> field, hasValue |-> hasValue, hasMessages |-> hasMessages,
   id |-> id, text |-> text, contact |-> contact]

\* The request bodies the provider (or anyone else) posts, and what JSON.parse
\* makes of each.
RawBodies ==
  {"not-json", "no-entry", "statuses", "other-field", "no-contact",
   "short-number", "no-value", "buy", "menu", "buy-then-menu"}

Payload(raw) ==
  CASE raw = "no-entry" -> [json |-> TRUE, shaped |-> FALSE, changes |-> <<>>]
    [] raw = "statuses" -> [json |-> TRUE, shaped |-> TRUE, changes |->
         <<Change("messages", TRUE, FALSE, "", <<>>, "valid")>>]
    [] raw = "other-field" -> [json |-> TRUE, shaped |-> TRUE, changes |->
         <<Change("account_update", TRUE, FALSE, "", <<>>, "missing")>>]
    [] raw = "no-contact" -> [json |-> TRUE, shaped |-> TRUE, changes |->
         <<Change("messages", TRUE, TRUE, "wamid.3", <<"m", "e", "n", "u">>, "missing")>>]
    [] raw = "short-number" -> [json |-> TRUE, shaped |-> TRUE, changes |->
         <<Change("messages", TRUE, TRUE, "wamid.4", <<"m", "e", "n", "u">>, "short")>>]
    [] raw = "no-value" -> [json |-> TRUE, shaped |-> TRUE, changes |->
         <<Change("messages", FALSE, FALSE, "", <<>>, "missing")>>]
    [] raw = "buy"      -> [json |-> TRUE, shaped |-> TRUE, changes |->
         <<Change("messages", TRUE, TRUE, "wamid.1", <<"a", "c", "h", "e", "t", "e", "r", " ", "1">>,
                  "valid")>>]
    [] raw = "menu"     -> [json |-> TRUE, shaped |-> TRUE, changes |->
         <<Change("messages", TRUE, TRUE, "wamid.2", <<"m", "e", "n", "u">>, "valid")>>]
    [] raw = "buy-then-menu" -> [json |-> TRUE, shaped |-> TRUE, changes |->
         <<Change("messages", TRUE, TRUE, "wamid.5", <<"a", "c", "h", "e", "t", "e", "r", " ", "1">>,
                  "valid"),
           Change("messages", TRUE, TRUE, "wamid.6", <<"m", "e", "n", "u">>, "valid")>>]
    [] OTHER            -> [json |-> FALSE, shaped |-> FALSE, changes |-> <<>>]

Signatures(raw) ==
  {NoSignature} \cup
  {Sign(AppSecret, raw), Sign(AppSecret, ObjectString),
   Sign(AppSecret, StaleBody), Sign(WrongSecret, raw)}

\* req.body.toString('utf8'): the bytes of the Buffer express.raw produced, or
\* Object.prototype.toString of the object a JSON parser mounted before the
\* router has already put in req.body.
BodyToString(raw) == IF jsonFirst THEN ObjectString ELSE raw

verifyWebhookSignature(payload, signature) ==
  signature = <<"sha256=">> \o Hmac(AppSecret, payload)

\* change.field !== 'messages' || !change.value.messages, for a change
\* without value: the second operand reads a property of undefined
Throws(c) == c.field = "messages" /\ ~c.hasValue

\* the lines of the loop body that skip a change
Actionable(c) ==
  /\ c.field = "messages" /\ c.hasValue /\ c.hasMessages
  /\ c.contact = "valid"

RECURSIVE NextChange(_, _)
NextChange(changes, k) ==
  IF k > Len(changes) THEN k
  ELSE IF Actionable(changes[k]) \/ Throws(changes[k]) THEN k
  ELSE NextChange(changes, k + 1)

HookArrive ==
  /\ CanArrive
  /\ \E raw \in RawBodies : \E sig \in Signatures(raw) :
       hooks' = Append(hooks,
         [pc |-> "recv", raw |-> raw, sig |-> sig, res |-> 0, k |-> 0,
          price |-> 0, cur |-> 0, order |-> 0,
          persisted |-> 0, marked |-> 0, sent |-> 0,
          responses |-> 0, unhandled |-> FALSE])
  /\ UNCHANGED <<side, db, creates, patches, chat, jsonFirst, verifies, edits, reads>>

CurChange(i) == Payload(hooks[i].raw).changes[hooks[i].k]

\* After one change is dealt with: on to the next one, or the end of the
\* loop.  A change that makes the loop body throw takes the handler to its
\* outer catch, whose res.sendStatus(200) comes after the one already sent:
\* it throws in turn and the handler's promise is rejected with nobody to
\* handle it.
Advance(h) ==
  LET k == NextChange(Payload(h.raw).changes, h.k + 1) IN
    IF k > Len(Payload(h.raw).changes) THEN [h EXCEPT !.k = k, !.pc = "done"]
    ELSE IF Throws(Payload(h.raw).changes[k])
    THEN [h EXCEPT !.k = k, !.pc = "done", !.responses = @ + 1,
                   !.unhandled = TRUE]
    ELSE [h EXCEPT !.k = k, !.pc = "persist"]

\* A plausible slip: a failure ends the work on the delivery.
AbortDelivery(h) == [h EXCEPT !.pc = "done"]

\* a failure while a message is dealt with is caught inside the loop, which
\* goes on with the next change
Absorbed(h) == Advance(h)

\* sendMessage(phoneNumber, text)
Send(i, text) ==
  /\ outbox' = Append(outbox, [inReplyTo |-> CurChange(i).id, text |-> text])

\* A plausible slip: the answer is left for after the loop.
RespondAfterLoop(h) == h

\* res.sendStatus(200), before the loop over the entries
RespondNow(h) == [h EXCEPT !.res = 200, !.responses = @ + 1]

\* the handler up to its first await
HookReceive(i) ==
  /\ hooks[i].pc = "recv"
  /\ LET h == hooks[i]
         rawBody == BodyToString(h.raw) IN
       IF jsonFirst /\ ~Payload(h.raw).json
       THEN \* the JSON parser mounted first rejects the body
            hooks' = [hooks EXCEPT ![i].pc = "done", ![i].res = 400,
                                   ![i].responses = @ + 1]
       ELSE IF ~verifyWebhookSignature(rawBody, h.sig)
       THEN hooks' = [hooks EXCEPT ![i].pc = "done", ![i].res = 401,
                                   ![i].responses = @ + 1]
       ELSE IF ~Payload(rawBody).json
       THEN \* JSON.parse throws; the outer catch answers 200
            hooks' = [hooks EXCEPT ![i].pc = "done", ![i].res = 200,
                                   ![i].responses = @ + 1]
       ELSE IF ~Payload(rawBody).shaped
       THEN hooks' = [hooks EXCEPT ![i].pc = "done", ![i].res = 400,
                                   ![i].responses = @ + 1]
       ELSE hooks' = [hooks EXCEPT ![i] = Advance(RespondNow(h))]
  /\ UNCHANGED <<side, db, creates, patches, chat, jsonFirst, verifies, edits, reads>>

\* prisma.message.create
HookPersist(i) ==
  /\ hooks[i].pc = "persist"
  /\ messages' = Append(messages,
       [messageId |-> CurChange(i).id, message |-> CurChange(i).text,
        status |-> "received"])
  /\ hooks' = [hooks EXCEPT ![i].pc = "markread", ![i].persisted = @ + 1]
  /\ UNCHANGED <<side, db, creates, patches, outbox, readMarks, jsonFirst, verifies, edits, reads>>

\* prisma.message.create throws: the catch inside the loop logs it and the
\* loop goes on with the next change
HookPersistFail(i) ==
  /\ hooks[i].pc = "persist"
  /\ hooks' = [hooks EXCEPT ![i] = Absorbed(hooks[i])]
  /\ UNCHANGED <<side, db, creates, patches, chat, jsonFirst, verifies, edits, reads>>

\* markAsRead(message.id), then processCommand up to its first await
HookMarkRead(i) ==
  /\ hooks[i].pc = "markread"
  /\ readMarks' = Append(readMarks, CurChange(i).id)
  /\ LET a == CommandOf(CurChange(i).text).action
         h == [hooks[i] EXCEPT !.marked = @ + 1] IN
       hooks' = [hooks EXCEPT ![i] =
         CASE a = "none"     -> Advance(h)
           [] a = "purchase" -> [h EXCEPT !.pc = "find"]
           [] OTHER          -> [h EXCEPT !.pc = "reply"]]
  /\ UNCHANGED <<side, db, creates, patches, messages, outbox, jsonFirst, verifies, edits, reads>>

\* showProducts, showOrders, sendWelcomeMessage or the fallback text
HookReply(i) ==
  /\ hooks[i].pc = "reply"
  /\ Send(i, CommandOf(CurChange(i).text).action)
  /\ hooks' = [hooks EXCEPT ![i] = Advance([hooks[i] EXCEPT !.sent = @ + 1])]
  /\ UNCHANGED <<side, db, creates, patches, messages, readMarks, jsonFirst, verifies, edits, reads>>

\* The provider cannot be reached: sendMessage throws, be it for the reply or
\* for the text that reports an earlier failure; so do the sends of the catch
\* blocks on the way out (handlePurchase, processCommand), and the catch
\* inside the loop absorbs the last one.  Nothing is sent and nothing already
\* written is undone.
HookSendFail(i) ==
  /\ hooks[i].pc \in {"reply", "find", "txread", "txwrite", "confirm"}
  /\ hooks' = [hooks EXCEPT ![i] = Absorbed(hooks[i])]
  /\ UNCHANGED <<side, db, creates, patches, chat, jsonFirst, verifies, edits, reads>>

\* A statement of handlePurchase throws (the database is unreachable, the
\* transaction cannot commit): the transaction is rolled back and the catch
\* of handlePurchase sends its text.
PurchaseFail(i) ==
  /\ hooks[i].pc \in {"find", "txread", "txwrite"}
  /\ outbox' = Append(outbox, [inReplyTo |-> Payload(hooks[i].raw).changes[hooks[i].k].id,
                                text |-> "purchase-failed"])
  /\ hooks' = [hooks EXCEPT ![i] = Absorbed([hooks[i] EXCEPT !.sent = @ + 1])]
  /\ UNCHANGED <<side, db, creates, patches, messages, readMarks, jsonFirst, verifies,
                 edits, reads>>

\* handlePurchase: prisma.product.findUnique outside the transaction
PurchaseFind(i) ==
  /\ hooks[i].pc = "find"
  /\ LET p == CommandOf(CurChange(i).text).productId IN
       IF p \notin Products
       THEN /\ Send(i, "unknown-product")
            /\ hooks' = [hooks EXCEPT ![i] = Advance([hooks[i] EXCEPT !.sent = @ + 1])]
       ELSE IF stock[p] < 1
       THEN /\ Send(i, "out-of-stock")
            /\ hooks' = [hooks EXCEPT ![i] = Advance([hooks[i] EXCEPT !.sent = @ + 1])]
       ELSE /\ hooks' = [hooks EXCEPT ![i].pc = "txread", ![i].price = price[p]]
            /\ outbox' = outbox
  /\ UNCHANGED <<side, db, creates, patches, messages, readMarks, jsonFirst, verifies, edits, reads>>

\* tx.product.findUnique inside the transaction
PurchaseTxRead(i) ==
  /\ hooks[i].pc = "txread"
  /\ LET p == CommandOf(CurChange(i).text).productId IN
       IF stock[p] < 1
       THEN \* 'Rupture de stock' is thrown, the transaction rolls back
            /\ Send(i, "purchase-failed")
            /\ hooks' = [hooks EXCEPT ![i] = Advance([hooks[i] EXCEPT !.sent = @ + 1])]
       ELSE /\ hooks' = [hooks EXCEPT ![i].pc = "txwrite", ![i].cur = stock[p]]
            /\ outbox' = outbox
  /\ UNCHANGED <<side, db, creates, patches, messages, readMarks, jsonFirst, verifies, edits, reads>>

\* data: { stock: currentProduct.stock - 1 }
PurchaseStock(cur) == cur - 1

\* tx.order.create, tx.product.update and the commit
PurchaseTxWrite(i) ==
  /\ hooks[i].pc = "txwrite"
  /\ LET p == CommandOf(CurChange(i).text).productId IN
       /\ orders' = Append(orders,
            [status |-> "pending", total |-> hooks[i].price, origin |-> "chat",
             userId |-> NoUser,
             items |-> <<[productId |-> p, quantity |-> 1, price |-> hooks[i].price]>>,
             statusHistory |-> <<>>, released |-> 0])
       /\ stock' = [stock EXCEPT ![p] = PurchaseStock(hooks[i].cur)]
       /\ hooks' = [hooks EXCEPT ![i].pc = "confirm", ![i].order = Len(orders) + 1]
  /\ UNCHANGED <<side, isActive, price, auditLog, creates, patches, chat, jsonFirst, verifies, edits, reads>>

\* the confirmation text
PurchaseConfirm(i) ==
  /\ hooks[i].pc = "confirm"
  /\ Send(i, "confirmed")
  /\ hooks' = [hooks EXCEPT ![i] = Advance([hooks[i] EXCEPT !.sent = @ + 1])]
  /\ UNCHANGED <<side, db, creates, patches, messages, readMarks, jsonFirst, verifies, edits, reads>>

\* ------------------------------------------------------------- Next
Next ==
  \/ CreateArrive
  \/ \E i \in DOMAIN creates : CreateTxRead(i)
  \/ \E i \in DOMAIN creates : CreateTxWrite(i)
  \/ \E i \in DOMAIN creates : CreateFail(i)
  \/ PatchArrive
  \/ \E i \in DOMAIN patches : PatchFind(i)
  \/ \E i \in DOMAIN patches : PatchUpdate(i)
  \/ \E i \in DOMAIN patches : PatchRestore(i)
  \/ \E i \in DOMAIN patches : PatchAudit(i)
  \/ \E i \in DOMAIN patches : PatchFail(i)
  \/ EditArrive
  \/ \E i \in DOMAIN edits : EditFind(i)
  \/ \E i \in DOMAIN edits : EditCount(i)
  \/ \E i \in DOMAIN edits : EditUpdate(i)
  \/ \E i \in DOMAIN edits : EditAudit(i)
  \/ ReadArrive
  \/ \E i \in DOMAIN reads : ReadQuery(i)
  \/ \E i \in DOMAIN reads : ReadAudit(i)
  \/ HookVerify
  \/ HookArrive
  \/ \E i \in DOMAIN hooks : HookReceive(i)
  \/ \E i \in DOMAIN hooks : HookPersist(i)
  \/ \E i \in DOMAIN hooks : HookPersistFail(i)
  \/ \E i \in DOMAIN hooks : HookMarkRead(i)
  \/ \E i \in DOMAIN hooks : HookReply(i)
  \/ \E i \in DOMAIN hooks : HookSendFail(i)
  \/ \E i \in DOMAIN hooks : PurchaseFail(i)
  \/ \E i \in DOMAIN hooks : PurchaseFind(i)
  \/ \E i \in DOMAIN hooks : PurchaseTxRead(i)
  \/ \E i \in DOMAIN hooks : PurchaseTxWrite(i)
  \/ \E i \in DOMAIN hooks : PurchaseConfirm(i)

Spec == Init /\ [][Next]_vars

\* ------------------------------------- the command interpreter alone
MaxCmds == 2

\* Inbound texts, each with what it is once trimmed and lower-cased: one of
\* the command words, a greeting, 'acheter' followed by digits, or something
\* else.
Inputs ==
  { [text |-> <<"m", "e", "n", "u">>,
     class |-> "menu"],
    [text |-> <<" ", "M", "e", "n", "u", " ">>,
     class |-> "menu"],
    [text |-> <<"p", "r", "o", "d", "u", "i", "t", "s">>,
     class |-> "produits"],
    [text |-> <<"c", "a", "t", "a", "l", "o", "g", "u", "e">>,
     class |-> "catalogue"],
    [text |-> <<"c", "o", "m", "m", "a", "n", "d", "e">>,
     class |-> "commande"],
    [text |-> <<"C", "o", "m", "m", "a", "n", "d", "e", "s">>,
     class |-> "commandes"],
    [text |-> <<"p", "a", "n", "i", "e", "r">>,
     class |-> "panier"],
    [text |-> <<"b", "o", "n", "j", "o", "u", "r">>,
     class |-> "greeting"],
    [text |-> <<"S", "A", "L", "U", "T">>,
     class |-> "greeting"],
    [text |-> <<"h", "e", "l", "l", "o", "\n">>,
     class |-> "greeting"],
    [text |-> <<"a", "c", "h", "e", "t", "e", "r", " ", "1">>,
     class |-> "acheter-digits"],
    [text |-> <<" ", "A", "c", "h", "e", "t", "e", "r", " ", "1", "2", " ">>,
     class |-> "acheter-digits"],
    [text |-> <<"a", "c", "h", "e", "t", "e", "r", " ", "x">>,
     class |-> "other"],
    [text |-> <<"a", "i", "d", "e">>,
     class |-> "other"] }

Interpret ==
  /\ Len(cmds) < MaxCmds
  /\ \E inp \in Inputs :
       cmds' = Append(cmds, [text |-> inp.text, class |-> inp.class,
                             did |-> CommandOf(inp.text)])
  /\ UNCHANGED <<shop, msgVars, authVars>>

InitCommand == Init

NextCommand == Interpret

SpecCommand == InitCommand /\ [][NextCommand]_vars

\* ------------------------------------------------------ /api/messages
MaxMsgReq == 2

\* Message.status: RECEIVED, READ, REPLIED for what customers sent
StoredStatuses == {"RECEIVED", "READ", "REPLIED"}

\* the one customer there is; any other id names nobody
Customer == 1
Nobody == 2

Stored(s, c) ==
  [customerId |-> Customer, isFromCustomer |-> TRUE, status |-> s, content |-> c]

MsgArrive ==
  /\ Len(msgReqs) < MaxMsgReq
  /\ \/ \E c \in {Customer, Nobody} :
          msgReqs' = Append(msgReqs, [kind |-> "open", pc |-> "find",
                                      customerId |-> c, id |-> 0, res |-> 0])
     \/ \E c \in {Customer, Nobody} :
          msgReqs' = Append(msgReqs, [kind |-> "send", pc |-> "find",
                                      customerId |-> c, id |-> 0, res |-> 0])
     \/ \E id \in 1..(Len(inbox) + 1) :
          msgReqs' = Append(msgReqs, [kind |-> "read", pc |-> "update",
                                      customerId |-> 0, id |-> id, res |-> 0])
  /\ UNCHANGED <<shop, authVars, cmdVars, inbox>>

\* prisma.customer.findUnique of GET /:customerId and of POST /send
MsgFind(i) ==
  /\ msgReqs[i].pc = "find"
  /\ msgReqs' = [msgReqs EXCEPT
       ![i].pc = IF msgReqs[i].customerId # Customer THEN "done"
                 ELSE IF msgReqs[i].kind = "open" THEN "markall" ELSE "provider",
       ![i].res = IF msgReqs[i].customerId # Customer THEN 404 ELSE 0]
  /\ UNCHANGED <<shop, authVars, cmdVars, inbox>>

\* GET /:customerId: prisma.message.updateMany({ customerId, status:
\* 'RECEIVED', isFromCustomer: true }, { status: 'READ' }), then res.json
OpenMarkRead(i) ==
  /\ msgReqs[i].pc = "markall"
  /\ inbox' = [k \in DOMAIN inbox |->
       IF /\ inbox[k].customerId = msgReqs[i].customerId
          /\ inbox[k].status = "RECEIVED" /\ inbox[k].isFromCustomer
       THEN [inbox[k] EXCEPT !.status = "READ"]
       ELSE inbox[k]]
  /\ msgReqs' = [msgReqs EXCEPT ![i].pc = "done", ![i].res = 200]
  /\ UNCHANGED <<shop, authVars, cmdVars>>

\* POST /send: sendMessage succeeds, or throws and the catch answers 500
SendProvider(i) ==
  /\ msgReqs[i].pc = "provider"
  /\ \/ msgReqs' = [msgReqs EXCEPT ![i].pc = "save"]
     \/ msgReqs' = [msgReqs EXCEPT ![i].pc = "done", ![i].res = 500]
  /\ UNCHANGED <<shop, authVars, cmdVars, inbox>>

\* POST /send: prisma.message.create({ status: 'SENT', isFromCustomer: false })
SendSave(i) ==
  /\ msgReqs[i].pc = "save"
  /\ inbox' = Append(inbox, [customerId |-> msgReqs[i].customerId,
                              isFromCustomer |-> FALSE, status |-> "SENT",
                              content |-> "from-agent"])
  /\ msgReqs' = [msgReqs EXCEPT ![i].pc = "done", ![i].res = 200,
                                 ![i].id = Len(inbox) + 1]
  /\ UNCHANGED <<shop, authVars, cmdVars>>

\* data: { status: 'READ' }
Marked(row) == [row EXCEPT !.status = "READ"]

\* PATCH /:id/read: prisma.message.update({ where: { id } }); it throws for
\* an id that names no row and the catch answers 500
PatchRead(i) ==
  /\ msgReqs[i].pc = "update"
  /\ IF msgReqs[i].id \in DOMAIN inbox
     THEN /\ inbox' = [inbox EXCEPT ![msgReqs[i].id] = Marked(@)]
          /\ msgReqs' = [msgReqs EXCEPT ![i].pc = "done", ![i].res = 200]
     ELSE /\ inbox' = inbox
          /\ msgReqs' = [msgReqs EXCEPT ![i].pc = "done", ![i].res = 500]
  /\ UNCHANGED <<shop, authVars, cmdVars>>

\* the shop at rest, with two messages of the customer stored earlier
InitMessages ==
  /\ InitShop /\ orders = <<>> /\ ~jsonFirst
  /\ cmds = <<>>
  /\ msgReqs = <<>>
  /\ InitAuth
  /\ userActive = [u \in AuthUsers |-> TRUE]
  /\ \E s1 \in StoredStatuses, s2 \in StoredStatuses :
       inbox = <<Stored(s1, "bonjour"), Stored(s2, "menu")>>

NextMessages ==
  \/ MsgArrive
  \/ \E i \in DOMAIN msgReqs : MsgFind(i)
  \/ \E i \in DOMAIN msgReqs : OpenMarkRead(i)
  \/ \E i \in DOMAIN msgReqs : SendProvider(i)
  \/ \E i \in DOMAIN msgReqs : SendSave(i)
  \/ \E i \in DOMAIN msgReqs : PatchRead(i)

SpecMessages == InitMessages /\ [][NextMessages]_vars

\* ---------------------------------------------------------- /api/auth
MaxAuthReq == 3
MaxNow == 2

\* tokenRecord.expiresAt < new Date()
Expired(row, t) == row.expiresAt < t

\* tokenRecord.revokedAt
Revoked(row) == row.revokedAt # <<>>

\* time passes
Tick ==
  /\ now < MaxNow
  /\ now' = now + 1
  /\ UNCHANGED <<shop, cmdVars, msgVars, refreshTokens, userActive, authReqs>>

\* a refresh with a token, known or not; a logout with a bearer token that
\* verifies or not, and with or without a refresh token in its body (0)
AuthArrive ==
  /\ Len(authReqs) < MaxAuthReq
  /\ \/ \E t \in IssuedTokens \cup {UnknownToken} :
          authReqs' = Append(authReqs,
            [kind |-> "refresh", pc |-> "find", token |-> t, user |-> 0,
             bearer |-> TRUE, res |-> 0, accessToken |-> FALSE,
             revokedBefore |-> t \in DOMAIN refreshTokens /\ Revoked(refreshTokens[t]),
             expiredBefore |-> t \in DOMAIN refreshTokens
                               /\ Expired(refreshTokens[t], now),
             inactiveBefore |-> t \in DOMAIN refreshTokens
                                /\ ~userActive[refreshTokens[t].userId]])
     \/ \E u \in AuthUsers, t \in {0} \cup IssuedTokens \cup {UnknownToken}, b \in BOOLEAN :
          authReqs' = Append(authReqs,
            [kind |-> "logout", pc |-> "authenticate", token |-> t, user |-> u,
             bearer |-> b, res |-> 0, accessToken |-> FALSE,
             revokedBefore |-> FALSE, expiredBefore |-> FALSE,
             inactiveBefore |-> FALSE])
  /\ UNCHANGED <<shop, cmdVars, msgVars, refreshTokens, userActive, now>>

\* POST /refresh: prisma.refreshToken.findUnique({ include: { user } }) and
\* the checks on the row that was read
RefreshFind(i) ==
  /\ authReqs[i].pc = "find"
  /\ LET t == authReqs[i].token IN
       IF t \notin DOMAIN refreshTokens
       THEN authReqs' = [authReqs EXCEPT ![i].pc = "done", ![i].res = 401]
       ELSE IF Expired(refreshTokens[t], now)
       THEN authReqs' = [authReqs EXCEPT ![i].pc = "delete"]
       ELSE IF Revoked(refreshTokens[t])
       THEN authReqs' = [authReqs EXCEPT ![i].pc = "done", ![i].res = 401]
       ELSE IF ~userActive[refreshTokens[t].userId]
       THEN authReqs' = [authReqs EXCEPT ![i].pc = "done", ![i].res = 403]
       ELSE authReqs' = [authReqs EXCEPT ![i].pc = "done", ![i].res = 200,
                                         ![i].accessToken = TRUE]
  /\ UNCHANGED <<shop, cmdVars, msgVars, refreshTokens, userActive, now>>

\* POST /refresh: prisma.refreshToken.delete of the expired row; it throws
\* when the row is gone already and the catch answers 500
RefreshDelete(i) ==
  /\ authReqs[i].pc = "delete"
  /\ LET t == authReqs[i].token IN
       IF t \in DOMAIN refreshTokens
       THEN /\ refreshTokens' = [u \in DOMAIN refreshTokens \ {t} |-> refreshTokens[u]]
            /\ authReqs' = [authReqs EXCEPT ![i].pc = "done", ![i].res = 401]
       ELSE /\ refreshTokens' = refreshTokens
            /\ authReqs' = [authReqs EXCEPT ![i].pc = "done", ![i].res = 500]
  /\ UNCHANGED <<shop, cmdVars, msgVars, userActive, now>>

\* the authenticate middleware in front of POST /logout
LogoutAuthenticate(i) ==
  /\ authReqs[i].pc = "authenticate"
  /\ authReqs' = [authReqs EXCEPT
       ![i].pc = IF ~authReqs[i].bearer \/ ~userActive[authReqs[i].user] THEN "done"
                 ELSE IF authReqs[i].token # 0 THEN "revoke" ELSE "audit",
       ![i].res = IF ~authReqs[i].bearer THEN 401
                  ELSE IF ~userActive[authReqs[i].user] THEN 403 ELSE 0]
  /\ UNCHANGED <<shop, cmdVars, msgVars, refreshTokens, userActive, now>>

\* POST /logout: prisma.refreshToken.updateMany({ token, userId:
\* req.user.id }, { revokedAt: new Date() })
LogoutRevoke(i) ==
  /\ authReqs[i].pc = "revoke"
  /\ refreshTokens' = [t \in DOMAIN refreshTokens |->
       IF t = authReqs[i].token /\ refreshTokens[t].userId = authReqs[i].user
       THEN [refreshTokens[t] EXCEPT !.revokedAt = <<now>>]
       ELSE refreshTokens[t]]
  /\ authReqs' = [authReqs EXCEPT ![i].pc = "audit"]
  /\ UNCHANGED <<shop, cmdVars, msgVars, userActive, now>>

\* POST /logout: prisma.auditLog.create, then res.json
LogoutAudit(i) ==
  /\ authReqs[i].pc = "audit"
  /\ auditLog' = Logged(auditLog, [action |-> "LOGOUT", order |-> 0])
  /\ authReqs' = [authReqs EXCEPT ![i].pc = "done", ![i].res = 200]
  /\ UNCHANGED <<stock, isActive, price, orders, creates, patches, messages,
                 outbox, readMarks, jsonFirst, hooks, verifies, edits, reads,
                 cmdVars, msgVars, refreshTokens, userActive, now>>

\* the shop at rest; either user may have been deactivated since the login
InitAuthOnly ==
  /\ InitShop /\ orders = <<>> /\ ~jsonFirst
  /\ cmds = <<>>
  /\ inbox = <<>>
  /\ msgReqs = <<>>
  /\ InitAuth
  /\ userActive \in [AuthUsers -> BOOLEAN]

NextAuth ==
  \/ Tick
  \/ AuthArrive
  \/ \E i \in DOMAIN authReqs : RefreshFind(i)
  \/ \E i \in DOMAIN authReqs : RefreshDelete(i)
  \/ \E i \in DOMAIN authReqs : LogoutAuthenticate(i)
  \/ \E i \in DOMAIN authReqs : LogoutRevoke(i)
  \/ \E i \in DOMAIN authReqs : LogoutAudit(i)

SpecAuth == InitAuthOnly /\ [][NextAuth]_vars

\* ============================================================= claims

\* units of product p held by the orders of a list of orders
RECURSIVE QtyIn(_, _)
QtyIn(os, p) ==
  IF os = <<>> THEN 0 ELSE SumQty(Head(os).items, p) + QtyIn(Tail(os), p)

\* no administrator has set a stock by hand
NoStockEdit == \A e \in DOMAIN edits : edits[e].body.stock = <<>>

Succeeded(c) == c.pc = "done" /\ c.res = 201

\* C1: in every reachable state, whatever the interleaving of order creations
\* and transitions to CANCELLED or REFUNDED, every product's stock is >= 0.
C1_StockNonNegative ==
  \A p \in Products : stock[p] >= 0

\* C2: two createOrder requests for quantity 1 of product 1, served while its
\* stock is 1: exactly one succeeds and the other fails with InsufficientStock.
\* (The stock before the two requests is the stock now plus what they took.)
C2_ExactlyOneSucceeds ==
  \A i, j \in DOMAIN creates :
    ( /\ i < j
      /\ creates[i].pc = "done" /\ creates[j].pc = "done"
      /\ creates[i].items = <<Item(1, 1)>> /\ creates[j].items = <<Item(1, 1)>>
      /\ Len(patches) = 0 /\ Len(hooks) = 0 /\ NoStockEdit
      /\ stock[1] + Cardinality({k \in {i, j} : Succeeded(creates[k])}) = 1 )
    => \E w \in {i, j} : \E l \in {i, j} \ {w} :
         /\ Succeeded(creates[w])
         /\ creates[l].res = 400 /\ creates[l].err = "InsufficientStock"

\* C3: a status change succeeds only along an edge of the transition table
\* from the order's current status, and every other request on an existing
\* order is answered 400 and changes nothing; CANCELLED from the initial
\* status succeeds (unless a statement fails on the way).
C3_TableEdge(from, to) ==
  from \in DOMAIN validTransitions /\ to \in validTransitions[from]

C3_Answered ==
  \A i \in DOMAIN patches :
    (patches[i].pc = "done" /\ patches[i].from # "") =>
      \/ patches[i].res = 400 /\ ~C3_TableEdge(patches[i].from, patches[i].status)
      \/ patches[i].res \in {200, 500} /\ C3_TableEdge(patches[i].from, patches[i].status)

C3_StatusStep ==
  \A o \in DOMAIN orders :
    orders'[o].status # orders[o].status =>
      C3_TableEdge(orders[o].status, orders'[o].status)

C3_TransitionTable == [](C3_Answered) /\ [][C3_StatusStep]_vars

\* C4: once an order's status is CANCELLED or REFUNDED, no request changes it.
C4_TerminalIsFinal ==
  [][\A o \in DOMAIN orders :
       orders[o].status \in Terminal => orders'[o].status = orders[o].status]_vars

\* C5: a successful transition to CANCELLED or REFUNDED returns to stock, for
\* every item of the order, exactly the item's quantity: when it is the only
\* status change and no chat purchase runs, stock plus the units held by the
\* other orders is the initial stock again (an order that took the stock from
\* InitStock to 0 brings it back to InitStock).
C5_CancelRestoresStock ==
  \A i \in DOMAIN patches :
    ( /\ patches[i].pc = "done" /\ patches[i].res = 200
      /\ patches[i].status \in Terminal
      /\ Len(patches) = 1 /\ Len(hooks) = 0 /\ NoStockEdit
      /\ \A c \in DOMAIN creates : creates[c].pc = "done" )
    => \A p \in Products :
         stock[p] + QtyIn(orders, p)
           - SumQty(orders[patches[i].orderNumber].items, p) = InitStock

\* reached: an order for the whole stock of product 1 was created (stock 0)
\* and then cancelled with a 200.
C5_Witness ==
  /\ Len(creates) = 1 /\ Succeeded(creates[1])
  /\ creates[1].items = <<Item(1, InitStock)>>
  /\ Len(patches) = 1 /\ patches[1].pc = "done" /\ patches[1].res = 200
  /\ patches[1].status = "CANCELLED" /\ patches[1].orderNumber = creates[1].order
  /\ stock[1] = InitStock

\* all the units of an order, whatever the product
RECURSIVE Units(_)
Units(items) ==
  IF items = <<>> THEN 0 ELSE Head(items).quantity + Units(Tail(items))

\* C6: the status write to CANCELLED/REFUNDED and the return of all the
\* order's items to stock are one atomic unit: in no state is an order
\* CANCELLED/REFUNDED with units not returned, or units returned without it.
C6_AtomicCancel ==
  \A o \in DOMAIN orders :
    \/ orders[o].status \in Terminal
         /\ orders[o].released = Units(orders[o].items)
    \/ orders[o].status \notin Terminal /\ orders[o].released = 0

\* C7: no reservation is lost: without status changes, the stock of a product
\* plus the units of all the orders created is its initial stock.
C7_NoLostUpdate ==
  (Len(patches) = 0 /\ NoStockEdit) =>
    \A p \in Products : stock[p] + QtyIn(orders, p) = InitStock

MsgIds == {"wamid.1", "wamid.2", "wamid.5", "wamid.6"}

Rows(m) == Cardinality({k \in DOMAIN messages : messages[k].messageId = m})
Replies(m) == Cardinality({k \in DOMAIN outbox : outbox[k].inReplyTo = m})

\* C8: however often a provider message id is delivered, one Message row is
\* persisted for it and at most one reply is sent.
C8_Idempotent ==
  \A m \in MsgIds : Rows(m) <= 1 /\ Replies(m) <= 1

\* C9: a redelivered 'acheter <id>' message creates no second order (and so
\* takes nothing more from stock).
C9_OnePurchasePerMessage ==
  \A i, j \in DOMAIN hooks :
    (i # j /\ hooks[i].raw = hooks[j].raw /\ hooks[i].order # 0) => hooks[j].order = 0

\* the deliveries that get as far as the route: a JSON parser mounted before
\* the router answers a body it cannot parse itself
ReachesRoute(h) == ~(jsonFirst /\ ~Payload(h.raw).json)

\* C10: a delivery whose signature header is missing or is not 'sha256=' +
\* HMAC(app secret, raw body) is answered 401 or 403 by the route and nothing
\* else is done for it.
C10_BadSignatureRejected ==
  \A i \in DOMAIN hooks :
    ( /\ hooks[i].sig # Sign(AppSecret, hooks[i].raw)
      /\ hooks[i].pc # "recv" /\ ReachesRoute(hooks[i]) ) =>
      /\ hooks[i].pc = "done" /\ hooks[i].res \in {401, 403}
      /\ hooks[i].persisted = 0 /\ hooks[i].marked = 0 /\ hooks[i].sent = 0
      /\ hooks[i].order = 0

\* C11: a delivery whose signature is the HMAC of its raw body is answered
\* 200, whatever its payload and whatever happens afterwards.
C11_ValidAlways200 ==
  \A i \in DOMAIN hooks :
    (hooks[i].sig = Sign(AppSecret, hooks[i].raw) /\ hooks[i].pc # "recv")
      => hooks[i].res = 200

\* the work done for the messages of a delivery
Processing(h) ==
  \/ h.pc \in {"persist", "markread", "reply", "find", "txread", "txwrite", "confirm"}
  \/ h.persisted > 0 \/ h.marked > 0 \/ h.sent > 0 \/ h.order # 0

\* C12: the 200 of a validly signed delivery is sent before any of its
\* messages is persisted, marked read or interpreted: whenever such work is
\* pending or done, the answer is already out.
C12_RespondsBeforeProcessing ==
  \A i \in DOMAIN hooks : Processing(hooks[i]) => hooks[i].res = 200

\* reached: the answer is out while the first message is still to be persisted
C12_Witness ==
  \E i \in DOMAIN hooks :
    /\ hooks[i].sig = Sign(AppSecret, hooks[i].raw)
    /\ hooks[i].res = 200 /\ hooks[i].pc = "persist" /\ hooks[i].persisted = 0

RECURSIVE ItemsSum(_)
ItemsSum(its) ==
  IF its = <<>> THEN 0
  ELSE Head(its).price * Head(its).quantity + ItemsSum(Tail(its))

C14_TotalIsSum == \A o \in DOMAIN orders : orders[o].total = ItemsSum(orders[o].items)

C14_Frozen ==
  \A o \in DOMAIN orders :
    orders'[o].total = orders[o].total /\ orders'[o].items = orders[o].items

\* C14: an order's total is the sum of price times quantity over its items,
\* and neither the total nor an item's price changes after creation, whatever
\* happens later to the order's status or to the products.
C14_TotalFrozen == [](C14_TotalIsSum) /\ [][C14_Frozen]_vars

\* reached: the price of a product was edited after an order for it was
\* placed, and the order still carries the old price
C14_Witness ==
  \E o \in DOMAIN orders, e \in DOMAIN edits :
    /\ edits[e].pc = "done" /\ edits[e].res = 200 /\ edits[e].body.price # <<>>
    /\ orders[o].items[1].productId = edits[e].id
    /\ orders[o].items[1].price # price[edits[e].id]
    /\ orders[o].total = ItemsSum(orders[o].items)

\* a step commits an order of POST /api/orders / writes its audit entry
NewRestOrder ==
  Len(orders') = Len(orders) + 1 /\ orders'[Len(orders')].origin = "rest"
NewCreateAudit ==
  /\ Len(auditLog') = Len(auditLog) + 1
  /\ auditLog'[Len(auditLog')].action = "CREATE_ORDER"

\* units of product p on the lines of an order
RECURSIVE LineQty(_, _)
LineQty(its, p) ==
  IF its = <<>> THEN 0
  ELSE (IF Head(its).productId = p THEN Head(its).quantity ELSE 0)
       + LineQty(Tail(its), p)

C15_Step ==
  /\ NewRestOrder <=> NewCreateAudit
  /\ NewRestOrder =>
       /\ \A p \in Products :
            stock'[p] = stock[p] - LineQty(orders'[Len(orders')].items, p)
       /\ auditLog'[Len(auditLog')].order = Len(orders')
       /\ \E i \in DOMAIN creates :
            /\ creates[i].pc # "done"
            /\ creates'[i].pc = "done" /\ creates'[i].res = 201
            /\ creates'[i].order = Len(orders')
  /\ \A i \in DOMAIN creates :
       (creates'[i] # creates[i] /\ creates'[i].res # 201)
         => UNCHANGED <<orders, stock, auditLog>>

\* C15: createOrder is all-or-nothing: a step either commits the order with
\* its items, every stock decrement and the audit entry together, answered
\* 201, or (validation failure, error at any step) leaves orders, stock and
\* audit log as they were; no state shows part of these writes.
C15_AllOrNothing == [][C15_Step]_vars

\* reached: an order of two lines was committed with both decrements and its
\* audit entry, and another request failed on an error leaving no trace
C15_Witness ==
  \E i, j \in DOMAIN creates :
    /\ creates[i].pc = "done" /\ creates[i].res = 201
    /\ Len(creates[i].items) = 2
    /\ creates[i].items[1].productId # creates[i].items[2].productId
    /\ creates[j].pc = "done" /\ creates[j].res = 500
    /\ \E a \in DOMAIN auditLog : auditLog[a].order = creates[i].order

\* some line names a product that does not exist or is not active
SomeInvalid(its) ==
  \E k \in DOMAIN its : its[k].productId \notin Products \/ ~isActive[its[k].productId]

\* some line asks for more than the stock of its product
Short(its) ==
  {its[k].productId : k \in {k \in DOMAIN its :
     its[k].productId \in Products /\ stock[its[k].productId] < its[k].quantity}}

C16_Step ==
  \A i \in DOMAIN creates :
    (creates[i].pc = "read" /\ creates'[i].pc # "read" /\ creates'[i].res # 500) =>
      LET its == creates[i].items IN
        /\ SomeInvalid(its) =>
             creates'[i].res = 400 /\ creates'[i].err = "InvalidProduct"
        /\ (~SomeInvalid(its) /\ Short(its) # {}) =>
             /\ creates'[i].res = 400 /\ creates'[i].err = "InsufficientStock"
             /\ creates'[i].product \in Short(its)
        /\ (SomeInvalid(its) \/ Short(its) # {}) =>
             /\ creates'[i].pc = "done" /\ creates'[i].order = 0
             /\ UNCHANGED <<orders, stock>>

\* C16: when createOrder checks its lines, a productId that names no existing
\* active product makes it fail 400 InvalidProduct, and otherwise a line that
\* asks for more than the stock makes it fail 400 InsufficientStock naming
\* such a product; in both cases no order is created and no stock changes.
C16_Validation == [][C16_Step]_vars

\* C17: a purchase from the chat never creates an order for a product that
\* does not exist or is not active when the order is committed.
C17_ChatValidates ==
  [][(Len(orders') = Len(orders) + 1 /\ orders'[Len(orders')].origin = "chat")
       => LET p == orders'[Len(orders')].items[1].productId IN
            p \in Products /\ isActive[p]]_vars

\* a step returns to stock the units of one item of a cancelled or refunded
\* order
Restores(p) ==
  \E o \in DOMAIN orders :
    /\ orders[o].status \in Terminal
    /\ orders'[o].released > orders[o].released
    /\ \E k \in DOMAIN orders[o].items :
         /\ orders[o].items[k].productId = p
         /\ orders'[o].released = orders[o].released + orders[o].items[k].quantity
         /\ stock'[p] = stock[p] + orders[o].items[k].quantity

\* a step commits an order and takes its units from stock
Reserves(p) ==
  /\ Len(orders') = Len(orders) + 1
  /\ stock'[p] = stock[p] - LineQty(orders'[Len(orders')].items, p)

\* C18: stock is written only by order creation, which decrements it by the
\* ordered quantity, and by a transition to CANCELLED or REFUNDED, which
\* increments it by the item quantity; every other step leaves it unchanged.
C18_StockWriters ==
  [][\A p \in Products : stock'[p] # stock[p] => (Reserves(p) \/ Restores(p))]_vars

\* C19: a caller who is not an administrator gets from GET /api/orders only
\* orders they own, and 404 from GET /api/orders/:orderNumber for an order
\* they do not own.
C19_OwnOrdersOnly ==
  \A i \in DOMAIN reads :
    LET r == reads[i] IN
      (r.pc # "query" /\ Role(r.user) # "ADMIN") =>
        /\ \A o \in r.found : orders[o].userId = r.user
        /\ (r.orderNumber \in DOMAIN orders /\ orders[r.orderNumber].userId # r.user)
             => r.res = 404

\* C20: the status history of an order only grows, by one record per
\* successful status change: once the requests on an order created in the run
\* are answered, its history has as many records as requests succeeded (a
\* failed one has left nothing), and no step removes or rewrites a record.
C20_OnePerSuccess ==
  \A c \in DOMAIN creates :
    LET o == creates[c].order IN
      (o # 0 /\ \A i \in DOMAIN patches :
                  patches[i].orderNumber = o => patches[i].pc = "done")
        => Len(orders[o].statusHistory) =
             Cardinality({i \in DOMAIN patches :
                            patches[i].orderNumber = o /\ patches[i].res = 200})

C20_Grows ==
  \A o \in DOMAIN orders :
    /\ Len(orders'[o].statusHistory) >= Len(orders[o].statusHistory)
    /\ SubSeq(orders'[o].statusHistory, 1, Len(orders[o].statusHistory))
         = orders[o].statusHistory

C20_History == [](C20_OnePerSuccess) /\ [][C20_Grows]_vars

AuditCount(action) ==
  Cardinality({a \in DOMAIN auditLog : auditLog[a].action = action})

C21_OnePerAction ==
  /\ AuditCount("CREATE_ORDER") =
       Cardinality({i \in DOMAIN creates : creates[i].res = 201})
  /\ \A i \in DOMAIN creates : creates[i].res = 201 =>
       Cardinality({a \in DOMAIN auditLog :
                      auditLog[a] = [action |-> "CREATE_ORDER",
                                     order |-> creates[i].order]}) = 1
  /\ AuditCount("UPDATE_ORDER_STATUS") =
       Cardinality({i \in DOMAIN patches : patches[i].res = 200})

C21_AppendOnly ==
  /\ Len(auditLog') >= Len(auditLog)
  /\ SubSeq(auditLog', 1, Len(auditLog)) = auditLog

\* C21: the audit log has one CREATE_ORDER entry per order creation answered
\* 201 and one UPDATE_ORDER_STATUS entry per status change answered 200, none
\* for the requests that failed, and no step changes or removes an entry.
C21_AuditAppendOnly == [](C21_OnePerAction) /\ [][C21_AppendOnly]_vars

\* reached: an order was created and then moved to another status, both
\* audited
C21_Witness ==
  \E i \in DOMAIN creates, j \in DOMAIN patches :
    /\ creates[i].res = 201 /\ patches[j].res = 200
    /\ patches[j].orderNumber = creates[i].order
    /\ Len(auditLog) = 2

\* the deliveries that carry a purchase
Purchases == {"buy", "buy-then-menu"}

\* C22: whatever fails during a purchase from the chat (out of stock, database
\* error, the reply cannot be sent), the failure does not leave the handler
\* as an unhandled error and the loop goes on: a delivery that is finished
\* has had every one of its changes dealt with, and every message that was
\* persisted went on to the interpreter.
C22_PurchaseFailureAbsorbed ==
  \A i \in DOMAIN hooks :
    LET h == hooks[i] IN
      (h.raw \in Purchases /\ h.k >= 1) =>
        /\ ~h.unhandled /\ h.responses = 1 /\ h.res = 200
        /\ h.pc = "done" => h.k = Len(Payload(h.raw).changes) + 1
        /\ h.pc = "done" => h.marked = h.persisted

\* reached: the purchase of a delivery failed on a database error, its sender
\* was told, and the next message of the same delivery got its reply
C22_Witness ==
  \E i \in DOMAIN hooks :
    /\ hooks[i].raw = "buy-then-menu" /\ hooks[i].pc = "done"
    /\ hooks[i].order = 0
    /\ \E a, b \in DOMAIN outbox :
         /\ outbox[a] = [inReplyTo |-> "wamid.5", text |-> "purchase-failed"]
         /\ outbox[b] = [inReplyTo |-> "wamid.6", text |-> "products"]

\* what each kind of text is for
Expected(class) ==
  CASE class = "greeting" -> "welcome"
    [] class \in {"menu", "produits", "catalogue"} -> "products"
    [] class \in {"commande", "commandes", "panier"} -> "orders"
    [] class = "acheter-digits" -> "purchase"
    [] OTHER -> "fallback"

\* C23: the interpreter maps a trimmed, lower-cased text to one action: a
\* greeting to the welcome text, menu / produits / catalogue to the product
\* list, commande / commandes / panier to the sender's orders, 'acheter
\* <digits>' to a purchase, anything else to the fallback text.
C23_CommandTable ==
  \A k \in DOMAIN cmds : cmds[k].did.action = Expected(cmds[k].class)

Rank(status) ==
  CASE status = "RECEIVED" -> 1
    [] status = "READ" -> 2
    [] status = "REPLIED" -> 3
    [] OTHER -> 0

\* C24: a stored message keeps its content, and its status, when it changes,
\* moves forward along RECEIVED, READ, REPLIED: whatever /api/messages does,
\* opening a conversation and PATCH /:id/read included.
C24_ForwardOnly ==
  [][\A k \in DOMAIN inbox :
       /\ inbox'[k].content = inbox[k].content
       /\ inbox'[k].status # inbox[k].status =>
            /\ Rank(inbox[k].status) > 0
            /\ Rank(inbox'[k].status) > Rank(inbox[k].status)]_vars

\* the payloads the route has nothing to do for: well-formed, and every
\* change is of another field, or has no message, no contact or a sender
\* number that is too short
NothingToDo(raw) ==
  /\ Payload(raw).json /\ Payload(raw).shaped
  /\ Payload(raw).changes # <<>>
  /\ \A k \in DOMAIN Payload(raw).changes :
       ~Actionable(Payload(raw).changes[k]) /\ ~Throws(Payload(raw).changes[k])

\* C25: a delivery signed over its raw body that carries no actionable
\* message is ignored: answered without an error status, and nothing is
\* persisted, marked read, replied to or ordered for it.
C25_IgnoredQuietly ==
  \A i \in DOMAIN hooks :
    ( /\ hooks[i].sig = Sign(AppSecret, hooks[i].raw)
      /\ NothingToDo(hooks[i].raw) /\ hooks[i].pc # "recv" ) =>
      /\ hooks[i].pc = "done" /\ hooks[i].res = 200
      /\ hooks[i].persisted = 0 /\ hooks[i].marked = 0 /\ hooks[i].sent = 0
      /\ hooks[i].order = 0

\* C25, with the router's own parser: the same deliveries are ignored
C25_IgnoredQuietlyRawParser ==
  jsonFirst \/ C25_IgnoredQuietly

\* the orders that still hold their units
Holding(os) == SelectSeq(os, LAMBDA o : o.status \notin Terminal)

\* C26: the units an order reserved are returned to stock at most once: with
\* no stock set by hand and no chat purchase, once the status changes have
\* been answered 200, 400 or 404, each product's stock plus the units held
\* by the orders that are not CANCELLED or REFUNDED is the initial stock,
\* also when two status changes of the same order overlapped.
C26_ReleasedAtMostOnce ==
  ( /\ NoStockEdit /\ Len(hooks) = 0
    /\ \A c \in DOMAIN creates : creates[c].pc = "done"
    /\ \A i \in DOMAIN patches :
         patches[i].pc = "done" /\ patches[i].res \in {200, 400, 404} ) =>
    /\ \A o \in DOMAIN orders : orders[o].released <= Units(orders[o].items)
    /\ \A p \in Products : stock[p] + QtyIn(Holding(orders), p) = InitStock

\* the records of a history follow one another along the edges of the table
Chained(h) ==
  /\ h # <<>> => h[1].from = "PENDING"
  /\ \A k \in DOMAIN h :
       /\ h[k].from \in DOMAIN validTransitions
       /\ h[k].to \in validTransitions[h[k].from]
       /\ k > 1 => h[k].from = h[k - 1].to

\* C27: under any interleaving of status changes, the history of an order
\* created through the API is a chain: it starts from PENDING, each record
\* starts where the one before ended, each is an edge of the table, and the
\* last one ends at the order's status.
C27_HistoryIsChain ==
  \A o \in DOMAIN orders :
    orders[o].origin = "rest" =>
      /\ Chained(orders[o].statusHistory)
      /\ orders[o].statusHistory # <<>> =>
           orders[o].statusHistory[Len(orders[o].statusHistory)].to = orders[o].status
      /\ orders[o].statusHistory = <<>> => orders[o].status = "PENDING"

\* C28: every delivery posted to the webhook gets exactly one response: once
\* the handler has answered, it has answered once, and no path of the
\* handler tries to answer a second time.
C28_OneResponse ==
  \A i \in DOMAIN hooks :
    hooks[i].pc # "recv" => hooks[i].responses = 1 /\ ~hooks[i].unhandled

\* C29: whatever the interleaving of POST /api/orders and DELETE
\* /api/products/:id, no order that is PENDING, CONFIRMED or PROCESSING has
\* an item of a product that is inactive.
C29_ActiveOrdersHaveActiveProducts ==
  \A o \in DOMAIN orders :
    orders[o].status \in {"PENDING", "CONFIRMED", "PROCESSING"} =>
      \A k \in DOMAIN orders[o].items : isActive[orders[o].items[k].productId]

\* C30: a refresh with a token that a logout had revoked before is answered
\* 401 and yields no access token; a refresh with a token that had expired,
\* or whose user was deactivated, yields no access token.
C30_RevokedOrExpiredRefused ==
  \A i \in DOMAIN authReqs :
    (authReqs[i].kind = "refresh" /\ authReqs[i].pc = "done") =>
      /\ authReqs[i].revokedBefore =>
           authReqs[i].res = 401 /\ ~authReqs[i].accessToken
      /\ (authReqs[i].expiredBefore \/ authReqs[i].inactiveBefore) =>
           ~authReqs[i].accessToken

\* C30, the part about access tokens alone: none is issued for a token that
\* was revoked, had expired or belongs to a deactivated user
C30_NoAccessToken ==
  \A i \in DOMAIN authReqs :
    (authReqs[i].revokedBefore \/ authReqs[i].expiredBefore
       \/ authReqs[i].inactiveBefore) => ~authReqs[i].accessToken

====
